---- MODULE Spec2Model ----
(***************************************************************************)
(* Model of codegen/src/types/substitutes.rs: the type-path substitution   *)
(* table TypeSubstitutes (new, extend, for_path_with_params), the helpers  *)
(* type_args and is_absolute, and the AbsoluteTypePath validator.          *)
(***************************************************************************)
EXTENDS Integers, Sequences, FiniteSets, TLC

(***************************************************************************)
(* Syntactic values (syn::TypePath and what it is made of).                *)
(***************************************************************************)

\* syn::PathArguments::None
NoArguments == [kind |-> "None", args |-> <<>>]

\* syn::PathArguments::AngleBracketed with the given generic arguments
AngleBracketed(args) == [kind |-> "AngleBracketed", args |-> args]

\* syn::PathArguments::Parenthesized with the given inputs
Parenthesized(args) == [kind |-> "Parenthesized", args |-> args]

\* syn::PathSegment
Segment(ident, arguments) == [ident |-> ident, arguments |-> arguments]

\* syn::TypePath: an optional leading `::` and the segments
SynPath(leading, segs) == [leading_colon |-> leading, segments |-> segs]

\* a path of plain identifiers
Plain(leading, idents) ==
    SynPath(leading, [i \in 1..Len(idents) |-> Segment(idents[i], NoArguments)])

\* the same path with generic arguments on its final segment
WithArgs(p, args) ==
    SynPath(p.leading_colon,
            [i \in 1..Len(p.segments) |->
                IF i = Len(p.segments)
                THEN Segment(p.segments[i].ident, AngleBracketed(args))
                ELSE p.segments[i]])

\* syn::GenericArgument::Type(syn::Type::Path(p))
TypeArg(p) == [kind |-> "Type::Path", path |-> p]

\* syn::GenericArgument::Type(syn::Type::TraitObject), written `dyn p`
DynArg(p) == [kind |-> "Type::TraitObject", path |-> p]

\* syn::GenericArgument::Lifetime, written 'name
LifetimeArg(name) == [kind |-> "Lifetime", path |-> Plain(FALSE, <<name>>)]

\* TypePath::Type(TypePathType::Path { path, params })
TypePathOf(path, params) == [path |-> path, params |-> params]

(***************************************************************************)
(* to_token_stream().to_string().replace(' ', "")                          *)
(***************************************************************************)

RECURSIVE PathTokens(_), SegmentsTokens(_, _), ArgsTokens(_, _),
          LifetimesTokens(_, _), OthersTokens(_, _, _)

\* the tokens one generic argument prints
ArgTokens(g) ==
    CASE g.kind = "Type::Path" -> PathTokens(g.path)
      [] g.kind = "Type::TraitObject" -> <<"dyn">> \o PathTokens(g.path)
      [] OTHER -> <<"'">> \o PathTokens(g.path)

\* the arguments from index i on in written order, separated by commas (the
\* inputs of parenthesized arguments)
ArgsTokens(args, i) ==
    IF i > Len(args) THEN <<>>
    ELSE (IF i > 1 THEN <<",">> ELSE <<>>) \o ArgTokens(args[i]) \o ArgsTokens(args, i + 1)

\* the comma written after argument i: every argument but the last has one
PunctTokens(args, i) == IF i < Len(args) THEN <<",">> ELSE <<>>

\* first pass of the printer of <...>: the lifetimes from index i on, each
\* with the comma written after it
LifetimesTokens(args, i) ==
    IF i > Len(args) THEN <<>>
    ELSE (IF args[i].kind = "Lifetime"
          THEN ArgTokens(args[i]) \o PunctTokens(args, i)
          ELSE <<>>)
         \o LifetimesTokens(args, i + 1)

\* second pass: the other arguments from index i on, each with the comma
\* written after it, and a comma put in front when what was printed last
\* had none
OthersTokens(args, i, trailing_or_empty) ==
    IF i > Len(args) THEN <<>>
    ELSE IF args[i].kind = "Lifetime"
         THEN OthersTokens(args, i + 1, trailing_or_empty)
         ELSE (IF trailing_or_empty THEN <<>> ELSE <<",">>)
              \o ArgTokens(args[i]) \o PunctTokens(args, i)
              \o OthersTokens(args, i + 1, i < Len(args))

\* the printer of <...> arguments: every lifetime first, then the other
\* arguments, whatever the order they were written in
AngleArgsTokens(args) ==
    LET lifetimes == {i \in 1..Len(args) : args[i].kind = "Lifetime"}
        trailing_or_empty ==
            \/ lifetimes = {}
            \/ \E i \in lifetimes : (\A j \in lifetimes : j <= i) /\ i < Len(args)
    IN  LifetimesTokens(args, 1) \o OthersTokens(args, 1, trailing_or_empty)

\* the tokens a segment's arguments print
ArgumentsTokens(a) ==
    CASE a.kind = "None" -> <<>>
      [] a.kind = "AngleBracketed" -> <<"<">> \o AngleArgsTokens(a.args) \o <<">">>
      [] OTHER -> <<"(">> \o ArgsTokens(a.args, 1) \o <<")">>

SegmentsTokens(segs, i) ==
    IF i > Len(segs) THEN <<>>
    ELSE (IF i > 1 THEN <<"::">> ELSE <<>>)
         \o <<segs[i].ident>> \o ArgumentsTokens(segs[i].arguments)
         \o SegmentsTokens(segs, i + 1)

\* ToTokens for syn::TypePath
PathTokens(p) ==
    (IF p.leading_colon THEN <<"::">> ELSE <<>>) \o SegmentsTokens(p.segments, 1)

RECURSIVE Concat(_, _)
\* the texts of the tokens from index i on, written one after the other
Concat(tokens, i) ==
    IF i > Len(tokens) THEN "" ELSE tokens[i] \o Concat(tokens, i + 1)

\* to_string() writes the tokens separated by spaces and replace(' ', "")
\* removes every space: what is left is the token texts run together.
path_key(ty) == Concat(PathTokens(ty), 1)

(***************************************************************************)
(* Helpers of substitutes.rs                                               *)
(***************************************************************************)

\* type_args: the syn::Type::Path arguments of angle-bracketed arguments, in
\* order; every other kind of argument is skipped.
type_args(path_args) ==
    IF path_args.kind = "AngleBracketed"
    THEN LET kept == SelectSeq(path_args.args, LAMBDA g : g.kind = "Type::Path")
         IN  [i \in 1..Len(kept) |-> kept[i].path]
    ELSE <<>>

\* is_absolute: a leading `::` or a first segment named crate
is_absolute(value) ==
    \/ value.leading_colon
    \/ Len(value.segments) > 0 /\ value.segments[1].ident = "crate"

\* a conversion that accepts every path
try_from_accept_all(value) ==
    [ok |-> TRUE, value |-> value, msg |-> ""]

\* AbsoluteTypePath::try_from (the message is the source's, without the
\* backquotes it puts around :: and crate)
try_from(value) ==
    LET is_global_abs_path ==
            \/ value.leading_colon
            \/ Len(value.segments) > 0 /\ value.segments[1].ident = "crate"
    IN  IF is_global_abs_path
        THEN [ok |-> TRUE, value |-> value, msg |-> ""]
        ELSE [ok |-> FALSE, value |-> value,
              msg |-> "The substitute path must be a global absolute path; try prefixing with :: or crate"]

\* PathArguments::is_none
arguments_is_none(a) == a.kind = "None"

\* PathArguments::is_empty
arguments_is_empty(a) ==
    CASE a.kind = "None" -> TRUE
      [] a.kind = "AngleBracketed" -> a.args = <<>>
      [] OTHER -> FALSE

\* elements of a sequence
Range(s) == {s[i] : i \in 1..Len(s)}

\* a map as a function on its key set
EmptyMap == [k \in {} |-> k]
Insert(m, k, v) == [x \in DOMAIN m \cup {k} |-> IF x = k THEN v ELSE m[x]]
Get(m, k) == IF k \in DOMAIN m THEN {m[k]} ELSE {}

(***************************************************************************)
(* TypeSubstitutes::new                                                    *)
(***************************************************************************)

\* parse_quote!(#crate_path::a::b): the tokens of the crate path followed by
\* the given segments, parsed as one path
UnderCrate(crate_path, idents) ==
    SynPath(crate_path.leading_colon,
            crate_path.segments \o Plain(FALSE, idents).segments)

\* the hardcoded default substitutes
defaults(crate_path) ==
    << <<"bitvec::order::Lsb0", UnderCrate(crate_path, <<"utils", "bits", "Lsb0">>)>>,
       <<"bitvec::order::Msb0", UnderCrate(crate_path, <<"utils", "bits", "Msb0">>)>>,
       <<"sp_core::crypto::AccountId32",
         UnderCrate(crate_path, <<"ext", "sp_core", "crypto", "AccountId32">>)>>,
       <<"primitive_types::H160", UnderCrate(crate_path, <<"ext", "sp_core", "H160">>)>>,
       <<"primitive_types::H256", UnderCrate(crate_path, <<"ext", "sp_core", "H256">>)>>,
       <<"primitive_types::H512", UnderCrate(crate_path, <<"ext", "sp_core", "H512">>)>>,
       <<"sp_runtime::multiaddress::MultiAddress",
         UnderCrate(crate_path, <<"ext", "sp_runtime", "MultiAddress">>)>>,
       <<"frame_support::traits::misc::WrapperKeepOpaque",
         UnderCrate(crate_path, <<"utils", "WrapperKeepOpaque">>)>>,
       <<"BTreeMap", UnderCrate(crate_path, <<"utils", "KeyedVec">>)>>,
       <<"BTreeSet", Plain(TRUE, <<"std", "vec", "Vec">>)>> >>

\* TypeSubstitutes::new: inner collects the defaults, params is empty
new(crate_path) ==
    LET d == defaults(crate_path)
    IN  [inner  |-> [k \in {d[i][1] : i \in 1..Len(d)} |->
                        LET i == CHOOSE j \in 1..Len(d) : d[j][1] = k IN d[i][2]],
         params |-> EmptyMap]

(***************************************************************************)
(* TypeSubstitutes::extend                                                 *)
(***************************************************************************)

\* the diagnostics abort! raises
NoError == ""
GenericInNamespace == "Namespace segment can't be generic"
EmptyPath == "Empty path"
UnresolvedGeneric == "Generic parameter {} couldn't be found or not absolute"

\* the source's namespace check: some segment before the last has arguments
\* that are neither none nor empty
namespace_is_generic(ty) ==
    \E i \in 1..(Len(ty.segments) - 1) :
        /\ ~arguments_is_none(ty.segments[i].arguments)
        /\ ~arguments_is_empty(ty.segments[i].arguments)

\* every argument is taken for resolved
arg_is_resolved_always(source_args, arg) == TRUE

\* a target argument is kept when it is one of the source's generics or absolute
arg_is_resolved(source_args, arg) ==
    \/ \E i \in 1..Len(source_args) : source_args[i] = arg
    \/ is_absolute(arg)

\* the template lists the source's generics, in the source's order
new_params_source_order(source_args, target_args) ==
    [i \in 1..Len(source_args) |-> TypePathOf(source_args[i], <<>>)]

\* the template built from the target's type arguments, in the target's order
new_params(source_args, target_args) ==
    [i \in 1..Len(target_args) |->
        IF \E j \in 1..Len(source_args) : source_args[j] = target_args[i]
        THEN LET j == CHOOSE j \in 1..Len(source_args) : source_args[j] = target_args[i]
             IN  TypePathOf(source_args[j], <<>>)
        ELSE TypePathOf(target_args[i], <<>>)]

\* what the closure of extend makes of one element: the diagnostic it aborts
\* with, or the key, the target and the template (when the source has type
\* arguments) it stores
closure(ty, with) ==
    LET aborted(e) == [err |-> e, key |-> path_key(ty), with |-> with,
                       has_params |-> FALSE, new_params |-> <<>>]
    IN  IF namespace_is_generic(ty) THEN aborted(GenericInNamespace)
        ELSE IF Len(ty.segments) = 0 THEN aborted(EmptyPath)
        ELSE IF Len(with.segments) = 0 THEN aborted(EmptyPath)
        ELSE LET source_args == type_args(ty.segments[Len(ty.segments)].arguments)
                 target_args == type_args(with.segments[Len(with.segments)].arguments)
             IN  IF source_args # <<>>
                 THEN IF \E i \in 1..Len(target_args) :
                             ~arg_is_resolved(source_args, target_args[i])
                      THEN aborted(UnresolvedGeneric)
                      ELSE [err |-> NoError, key |-> path_key(ty), with |-> with,
                            has_params |-> TRUE,
                            new_params |-> new_params(source_args, target_args)]
                 ELSE [err |-> NoError, key |-> path_key(ty), with |-> with,
                       has_params |-> FALSE, new_params |-> <<>>]

\* the outcome of one element stored with the template inserted before the target's
\* arguments are checked: an unresolved argument leaves the slots built so far
store_early_insert(t, e, r) ==
    LET pre == [t EXCEPT !.ty = e.ty, !.with = e.with,
                         !.pre_target = Get(t.inner, r.key),
                         !.pre_template = Get(t.params, r.key)]
    IN  IF r.err = UnresolvedGeneric
        THEN [pre EXCEPT !.err = r.err, !.params = Insert(t.params, r.key, <<>>)]
        ELSE IF r.err # NoError THEN [pre EXCEPT !.err = r.err]
        ELSE [pre EXCEPT !.inner = Insert(t.inner, r.key, r.with),
                         !.params = IF r.has_params
                                    THEN Insert(t.params, r.key, r.new_params)
                                    ELSE t.params,
                         !.ingested = Insert(t.ingested, r.key, e)]

\* the outcome of one element stored with the target under the source's text up
\* to its final segment's arguments, the template under the whole text
store_bare_key(t, e, r) ==
    LET bare == path_key(Plain(e.ty.leading_colon,
                               [i \in 1..Len(e.ty.segments) |-> e.ty.segments[i].ident]))
        pre == [t EXCEPT !.ty = e.ty, !.with = e.with,
                         !.pre_target = Get(t.inner, r.key),
                         !.pre_template = Get(t.params, r.key)]
    IN  IF r.err # NoError THEN [pre EXCEPT !.err = r.err]
        ELSE [pre EXCEPT !.inner = Insert(t.inner, bare, r.with),
                         !.params = IF r.has_params
                                    THEN Insert(t.params, r.key, r.new_params)
                                    ELSE t.params,
                         !.ingested = Insert(t.ingested, r.key, e)]

\* the outcome r of the closure on element e stored: the closure (it inserts the template into
\* params when it built one) has run and HashMap::extend inserts the pair it
\* returned into inner; an abort unwinds before either insertion. ty, with,
\* pre_target and pre_template record the element and what the table held
\* under its key when the closure started.
store(t, e, r) ==
    LET pre == [t EXCEPT !.ty = e.ty, !.with = e.with,
                         !.pre_target = Get(t.inner, r.key),
                         !.pre_template = Get(t.params, r.key)]
    IN  IF r.err # NoError THEN [pre EXCEPT !.err = r.err]
        ELSE [pre EXCEPT !.inner = Insert(t.inner, r.key, r.with),
                         !.params = IF r.has_params
                                    THEN Insert(t.params, r.key, r.new_params)
                                    ELSE t.params,
                         !.ingested = Insert(t.ingested, r.key, e)]

\* one element of extend: the closure runs once and its outcome is stored
extend_step(t, e) ==
    CHOOSE t2 \in {store(t, e, r) : r \in {closure(e.ty, e.with)}} : TRUE

RECURSIVE extend_from(_, _, _)
\* the elements from index i on, in order, until one aborts
extend_from(t, elems, i) ==
    IF i > Len(elems) \/ t.err # NoError THEN t
    ELSE extend_from(extend_step(t, elems[i]), elems, i + 1)

(***************************************************************************)
(* TypeSubstitutes::for_path_with_params                                   *)
(***************************************************************************)

\* the lookup with the caller's params always passed through
for_path_with_params_passthrough(inner_, params_, path, caller) ==
    LET key == path_key(path)
    IN  IF key \in DOMAIN inner_
        THEN [is_some |-> TRUE, sub |-> inner_[key], params |-> caller]
        ELSE [is_some |-> FALSE, sub |-> Plain(FALSE, <<>>), params |-> <<>>]

\* Some((sub, params)) when inner has the key, with the stored template in
\* place of the caller's params when params has the key; None otherwise
for_path_with_params(inner_, params_, path, caller) ==
    LET key == path_key(path)
    IN  IF key \in DOMAIN inner_
        THEN [is_some |-> TRUE, sub |-> inner_[key],
              params |-> IF key \in DOMAIN params_ THEN params_[key] ELSE caller]
        ELSE [is_some |-> FALSE, sub |-> Plain(FALSE, <<>>), params |-> <<>>]

(***************************************************************************)
(* Inputs                                                                  *)
(***************************************************************************)

\* number of elements the extend calls of a run are given in all, at most
MaxElems == 2

A == Plain(FALSE, <<"A">>)
B == Plain(FALSE, <<"B">>)
T == Plain(FALSE, <<"T">>)
DynT == Plain(FALSE, <<"dynT">>)
U8 == Plain(TRUE, <<"core", "u8">>)
Foo == Plain(FALSE, <<"Foo">>)
Bar == Plain(TRUE, <<"x", "Bar">>)
Y == Plain(TRUE, <<"x", "Y">>)

\* source patterns
FooAB == WithArgs(Foo, <<TypeArg(A), TypeArg(B)>>)
FooA == WithArgs(Foo, <<TypeArg(A)>>)
FooALifetime == WithArgs(Foo, <<TypeArg(A), LifetimeArg("a")>>)
FooDynT == WithArgs(Foo, <<TypeArg(DynT)>>)
FooDyn_T == WithArgs(Foo, <<DynArg(T)>>)
BTreeMapPath == Plain(FALSE, <<"BTreeMap">>)
NamespaceGeneric ==
    SynPath(FALSE, <<Segment("a", NoArguments),
                     Segment("b", AngleBracketed(<<TypeArg(T)>>)),
                     Segment("c", NoArguments)>>)
NamespaceGenericA == WithArgs(NamespaceGeneric, <<TypeArg(A)>>)
EmptySource == Plain(FALSE, <<>>)

\* target paths
BarBA == WithArgs(Bar, <<TypeArg(B), TypeArg(A)>>)
BarA == WithArgs(Bar, <<TypeArg(A)>>)
BarB == WithArgs(Bar, <<TypeArg(B)>>)
BarU8 == WithArgs(Bar, <<TypeArg(U8)>>)
BarLifetimeA == WithArgs(Bar, <<LifetimeArg("a"), TypeArg(A)>>)
CrateBaz == WithArgs(Plain(FALSE, <<"crate", "Baz">>), <<TypeArg(DynT)>>)
EmptyTarget == Plain(TRUE, <<>>)
Relative == Plain(FALSE, <<"some", "relative", "Path">>)

Entry(ty, with) == [ty |-> ty, with |-> with]

\* the (source pattern, target) pairs extend is given
Entries ==
    { Entry(FooAB, BarBA), Entry(FooA, BarU8), Entry(FooAB, BarA),
      Entry(NamespaceGenericA, BarB),
      Entry(FooA, BarB), Entry(Foo, BarB), Entry(BTreeMapPath, Y),
      Entry(FooDynT, CrateBaz), Entry(FooDyn_T, Y), Entry(EmptySource, Y),
      Entry(FooA, EmptyTarget), Entry(FooALifetime, BarLifetimeA), Entry(Foo, Relative) }

\* the paths handed to AbsoluteTypePath::try_from
Targets == { Relative, Y, CrateBaz, EmptyTarget }

\* the crate paths new is given: anchor paths, rooted at a leading :: or at
\* the crate marker
CratePaths ==
    { Plain(TRUE, <<"my_root">>), Plain(FALSE, <<"crate">>), Plain(TRUE, <<"subxt">>) }

\* the paths of the ten default keys
DefaultPaths ==
    { Plain(FALSE, <<"bitvec", "order", "Lsb0">>),
      Plain(FALSE, <<"bitvec", "order", "Msb0">>),
      Plain(FALSE, <<"sp_core", "crypto", "AccountId32">>),
      Plain(FALSE, <<"primitive_types", "H160">>),
      Plain(FALSE, <<"primitive_types", "H256">>),
      Plain(FALSE, <<"primitive_types", "H512">>),
      Plain(FALSE, <<"sp_runtime", "multiaddress", "MultiAddress">>),
      Plain(FALSE, <<"frame_support", "traits", "misc", "WrapperKeepOpaque">>),
      Plain(FALSE, <<"BTreeMap">>),
      Plain(FALSE, <<"BTreeSet">>) }

\* the paths looked up
LookupPaths ==
    DefaultPaths \cup
    { FooAB, FooA, Foo, FooDynT, FooDyn_T,
      WithArgs(BTreeMapPath, <<TypeArg(A), TypeArg(B)>>),
      FooALifetime }

I32 == TypePathOf(Plain(FALSE, <<"i32">>), <<>>)
Str == TypePathOf(Plain(FALSE, <<"Str">>), <<>>)
U32 == TypePathOf(Plain(FALSE, <<"u32">>), <<>>)

\* the already resolved params the generator passes to a lookup
CallerParams == { <<U32>>, <<I32, Str>> }

(***************************************************************************)
(* The table and its operations                                            *)
(***************************************************************************)

VARIABLES
    inner,      \* TypeSubstitutes.inner: key -> substitute path
    params,     \* TypeSubstitutes.params: key -> template
    ingested,   \* history: key -> the last element extend stored under it
    extends,    \* number of extend calls made
    given,      \* number of elements the extend calls were given
    last        \* the last operation: its inputs and what it returned

vars == <<inner, params, ingested, extends, given, last>>

NoPath == Plain(FALSE, <<>>)
NoResult == [is_some |-> FALSE, sub |-> NoPath, params |-> <<>>]

Observed(op, err, ty, with, pre_target, pre_template, path, caller, result) ==
    [op |-> op, err |-> err, ty |-> ty, with |-> with,
     pre_target |-> pre_target, pre_template |-> pre_template,
     path |-> path, caller |-> caller, result |-> result]

Init ==
    \E crate_path \in CratePaths :
        /\ inner = new(crate_path).inner
        /\ params = new(crate_path).params
        /\ ingested = EmptyMap
        /\ extends = 0
        /\ given = 0
        /\ last = Observed("new", NoError, NoPath, NoPath, {}, {}, NoPath, <<>>, NoResult)

\* extend(elems): every target was validated by AbsoluteTypePath::try_from
Extend(elems) ==
    /\ given + Len(elems) <= MaxElems
    /\ \A i \in 1..Len(elems) : try_from(elems[i].with).ok
    /\ \E t \in {extend_from([inner |-> inner, params |-> params,
                              ingested |-> ingested, err |-> NoError,
                              ty |-> NoPath, with |-> NoPath,
                              pre_target |-> {}, pre_template |-> {}],
                             elems, 1)} :
           /\ inner' = t.inner
           /\ params' = t.params
           /\ ingested' = t.ingested
           /\ last' = Observed("extend", t.err, t.ty, t.with, t.pre_target,
                               t.pre_template, NoPath, <<>>, NoResult)
    /\ extends' = extends + 1
    /\ given' = given + Len(elems)

\* a lookup that remembers the params it was called with
LookupMemo(path, caller) ==
    /\ last' = Observed("lookup", NoError, NoPath, NoPath, {}, {}, path, caller,
                        for_path_with_params(inner, params, path, caller))
    /\ params' = Insert(params, path_key(path), caller)
    /\ UNCHANGED <<inner, ingested, extends, given>>

\* for_path_with_params(path, params) on &self
Lookup(path, caller) ==
    /\ last' = Observed("lookup", NoError, NoPath, NoPath, {}, {}, path, caller,
                        for_path_with_params(inner, params, path, caller))
    /\ UNCHANGED <<inner, params, ingested, extends, given>>

\* AbsoluteTypePath::try_from(value)
TryFrom(value) ==
    /\ last' = Observed("try_from", try_from(value).msg, NoPath, value, {}, {},
                        NoPath, <<>>, NoResult)
    /\ UNCHANGED <<inner, params, ingested, extends, given>>

\* an extend call with any sequence of entries the run still has room for
ExtendCall ==
    \E n \in 1..(MaxElems - given) : \E elems \in [1..n -> Entries] : Extend(elems)

Next ==
    \/ ExtendCall
    \/ \E path \in LookupPaths, caller \in CallerParams : Lookup(path, caller)
    \/ \E value \in Targets : TryFrom(value)

Spec == Init /\ [][Next]_vars

(***************************************************************************)
(* Vocabulary of the properties                                            *)
(***************************************************************************)

\* the type arguments of a path's final segment (none for an empty path)
FinalGenerics(p) ==
    IF Len(p.segments) = 0 THEN <<>>
    ELSE type_args(p.segments[Len(p.segments)].arguments)

\* the text of a path with every segment's arguments left out
Unargumented(p) ==
    path_key(Plain(p.leading_colon, [i \in 1..Len(p.segments) |-> p.segments[i].ident]))

\* some type argument of the target's final segment is neither one of the
\* source's generics nor absolute
HasUnresolvedGeneric(ty, with) ==
    \E i \in 1..Len(FinalGenerics(with)) :
        /\ FinalGenerics(with)[i] \notin Range(FinalGenerics(ty))
        /\ ~is_absolute(FinalGenerics(with)[i])

\* the table holds under the key of the last element what it held when that
\* element's processing started
LastElementNotStored ==
    /\ Get(inner, path_key(last.ty)) = last.pre_target
    /\ Get(params, path_key(last.ty)) = last.pre_template

\* the template the specification describes for an entry: one slot per type
\* argument of the target, in the target's order
TemplateOf(e) ==
    [i \in 1..Len(FinalGenerics(e.with)) |-> TypePathOf(FinalGenerics(e.with)[i], <<>>)]

(***************************************************************************)
(* Properties                                                              *)
(***************************************************************************)

\* C1: after extend registered a source with generics <A, B> and a target
\* with generics <B, A>, a lookup of that source with caller arguments [X, Y]
\* returns the effective arguments [Y, X].
C1_ReorderResolvesCallerArgs ==
    (/\ last.op = "lookup"
     /\ path_key(last.path) \in DOMAIN ingested
     /\ ingested[path_key(last.path)].ty = last.path
     /\ Len(FinalGenerics(last.path)) = 2
     /\ FinalGenerics(ingested[path_key(last.path)].with)
            = <<FinalGenerics(last.path)[2], FinalGenerics(last.path)[1]>>
     /\ Len(last.caller) = 2)
    => /\ last.result.is_some
       /\ last.result.params = <<last.caller[2], last.caller[1]>>

\* C2: the generic arguments written on the looked-up path are not part of
\* the key match: a path with the same un-argumented text gets the same
\* outcome (None, or the same stored target) as the path just looked up.
C2_GenericArgsNotPartOfKey ==
    last.op = "lookup" =>
        \A q \in LookupPaths :
            Unargumented(q) = Unargumented(last.path) =>
                LET r == for_path_with_params(inner, params, q, last.caller)
                IN  /\ r.is_some = last.result.is_some
                    /\ r.sub = last.result.sub

\* C3 as stated: every entry whose target has an unresolved type argument
\* fails with UnresolvedGeneric and is not stored, whether or not the source
\* declares generics.
C3_UnresolvedAlwaysRejected ==
    /\ (last.op = "extend" /\ Len(last.with.segments) > 0
            /\ HasUnresolvedGeneric(last.ty, last.with))
        => (last.err = UnresolvedGeneric /\ LastElementNotStored)
    /\ \A k \in DOMAIN ingested :
           ~HasUnresolvedGeneric(ingested[k].ty, ingested[k].with)

\* the entries the unresolved-generic check applies to: no generic namespace
\* segment, a source whose final segment has a type argument, and a target
\* with an unresolved type argument
UnresolvedCase(ty, with) ==
    /\ ~namespace_is_generic(ty)
    /\ FinalGenerics(ty) # <<>>
    /\ Len(with.segments) > 0
    /\ HasUnresolvedGeneric(ty, with)

\* C3 amended: extend fails with UnresolvedGeneric, and does not store the
\* entry, for every entry whose source has no generic namespace segment and
\* has a type argument on its final segment and whose target has an
\* unresolved type argument; no such entry is ever stored.
C3_UnresolvedRejectedWhenSourceGeneric ==
    /\ (last.op = "extend" /\ UnresolvedCase(last.ty, last.with))
        => (last.err = UnresolvedGeneric /\ LastElementNotStored)
    /\ \A k \in DOMAIN ingested : ~UnresolvedCase(ingested[k].ty, ingested[k].with)

\* an extend call ended on Foo<A> -> ::x::Bar<B>, rejected as unresolved
C3_Witness ==
    /\ last.op = "extend"
    /\ last.ty = FooA /\ last.with = BarB
    /\ last.err = UnresolvedGeneric

\* C4: for each source key the table holds exactly the target and the
\* template of the last entry ingested under that key; the template is
\* absent when that entry's source has no generics.
C4_LastEntryReplacesTargetAndTemplate ==
    \A k \in DOMAIN ingested :
        /\ Get(inner, k) = {ingested[k].with}
        /\ Get(params, k) = IF FinalGenerics(ingested[k].ty) # <<>>
                            THEN {TemplateOf(ingested[k])}
                            ELSE {}

\* C5: when extend rejects an entry, the target and the template under that
\* entry's key are what they were just before the entry was processed.
C5_RejectedEntryNotPersisted ==
    (last.op = "extend" /\ last.err # NoError) =>
        /\ last.err \in {GenericInNamespace, EmptyPath, UnresolvedGeneric}
        /\ LastElementNotStored

\* an entry was rejected whose key already had a target and a template
C5_Witness ==
    /\ last.op = "extend"
    /\ last.err # NoError
    /\ last.pre_target # {}
    /\ last.pre_template # {}

\* C6: every stored target path is absolute, the defaults included.
C6_StoredTargetsAbsolute ==
    \A k \in DOMAIN inner : is_absolute(inner[k])

\* an extend call has stored a target rooted at the crate marker next to the
\* defaults built under the crate path
C6_Witness ==
    /\ extends > 0
    /\ "Foo<dynT>" \in DOMAIN inner
    /\ inner["Foo<dynT>"] = CrateBaz
    /\ \A p \in DefaultPaths : path_key(p) \in DOMAIN inner

\* C7: a lookup returns None exactly when no target is stored under the key
\* of the path; otherwise the stored target, with the stored template when
\* there is one and the caller's params unchanged when there is none. Every
\* default key of a fresh table returns the caller's params.
C7_LookupResult ==
    last.op = "lookup" =>
        LET key == path_key(last.path)
        IN  /\ last.result.is_some <=> Get(inner, key) # {}
            /\ last.result.is_some =>
                /\ Get(inner, key) = {last.result.sub}
                /\ Get(params, key) \in {{}, {last.result.params}}
                /\ Get(params, key) = {} => last.result.params = last.caller
            /\ (extends = 0 /\ last.path \in DefaultPaths) =>
                /\ last.result.is_some
                /\ last.result.params = last.caller

\* a lookup returned a stored template in place of the caller's params
C7_Witness ==
    /\ last.op = "lookup"
    /\ last.result.is_some
    /\ last.result.params # last.caller
    /\ path_key(last.path) = "Foo<A,B>"

\* C8: a lookup changes neither the target mapping nor the template mapping.
C8_LookupLeavesTableUnchanged ==
    [][last'.op = "lookup" => (inner' = inner /\ params' = params)]_vars

\* a lookup after an extend call that found nothing
C8_Witness ==
    /\ last.op = "lookup"
    /\ ~last.result.is_some
    /\ ingested # EmptyMap

\* C9: for every stored entry whose source has a type argument the template
\* has one slot per type argument of the target, in the target's order, each
\* either a generic of the source or absolute; every slot of every stored
\* template is a generic declared on a source pattern of that key or absolute.
C9_TemplateShape ==
    /\ \A k \in DOMAIN ingested :
        LET sa == FinalGenerics(ingested[k].ty)
            ta == FinalGenerics(ingested[k].with)
        IN  sa # <<>> =>
              /\ k \in DOMAIN params
              /\ Len(params[k]) = Len(ta)
              /\ \A i \in 1..Len(ta) :
                    /\ params[k][i] = TypePathOf(ta[i], <<>>)
                    /\ ta[i] \in Range(sa) \/ is_absolute(ta[i])
    /\ \A k \in DOMAIN params : \A i \in 1..Len(params[k]) :
           \/ is_absolute(params[k][i].path)
           \/ \E e \in Entries :
                 /\ path_key(e.ty) = k
                 /\ params[k][i].path \in Range(FinalGenerics(e.ty))

\* Foo<A, B> -> ::x::Bar<A> is stored: the template is shorter than the source
C9_Witness ==
    /\ "Foo<A,B>" \in DOMAIN ingested
    /\ ingested["Foo<A,B>"] = Entry(FooAB, BarA)
    /\ Len(params["Foo<A,B>"]) = 1

\* C10: every key with a template has a target, and a fresh table has no
\* template.
C10_TemplateKeysHaveTargets ==
    /\ DOMAIN params \subseteq DOMAIN inner
    /\ extends = 0 => params = EmptyMap

\* an extend call stored a template
C10_Witness ==
    /\ extends > 0
    /\ params # EmptyMap

====
